---------------------------- MODULE Spec2Model ----------------------------
(***************************************************************************)
(* A model of src/src/ImageDrop.js: the ImageDrop module (drop and paste   *)
(* of image files into a Quill editor) and the ImageResize module (corner  *)
(* handles and a size display around the selected image).                  *)
(*                                                                         *)
(* Every event handler is one atomic action: JavaScript runs a handler to  *)
(* completion on the single event loop.  A handler that raises an          *)
(* exception keeps the assignments it made before the raise and skips the  *)
(* rest; the helpers below thread a state record s through the handler     *)
(* and stop acting once s.thrown is set.                                   *)
(*                                                                         *)
(* Lengths: clientX values are in half pixels (a MouseEvent coordinate is  *)
(* a double), image widths are whole pixels as HTMLImageElement.width is.  *)
(***************************************************************************)
EXTENDS Integers, Sequences, FiniteSets, TLC

\* ------------------------------------------------------------------ bounds

\* Pointer positions are the multiples of 10.5px up to this many steps.
MaxPointer == 1
\* Mousemove events delivered to handleDrag in one behaviour.
MaxDragMoves == 2
\* Entries dropped or pasted in one behaviour.
MaxFiles == 3

\* --------------------------------------------------------------- JS values

\* A JavaScript number n, the value undefined, and NaN.
Num(n) == [num |-> n]

Undefined == [undefined |-> TRUE]

NaN == [nan |-> TRUE]

IsNum(a) == a \notin {Undefined, NaN}

\* No exception has escaped the handler.
None == "none"

\* ------------------------------------------------------------ the document

\* The <img> elements of the editor, with their intrinsic sizes and their
\* place in the viewport (whole pixels).
ImgIds == {"A", "B"}

Img(i) == [tag |-> "IMG", id |-> i]

Imgs == { Img(i) : i \in ImgIds }

naturalWidth(i) == IF i = "A" THEN 200 ELSE 100

naturalHeight(i) == IF i = "A" THEN 100 ELSE 60

ImgLeft(i) == 20

ImgTop(i) == IF i = "A" THEN 40 ELSE 400

\* The document and the editor root (quill.root), as event targets.
Document == [node |-> "document"]

Root == [node |-> "root"]

\* A click target inside the editor that is no image.
NonImage == [tag |-> "P"]

ClickTargets == Imgs \cup {NonImage}

\* clientX values, in half pixels.
PointerXs == { 21 * k : k \in 0..MaxPointer }

\* The places a cursor style is set on: document.body, the editor root and
\* the images.
CursorPlaces == {"body", "root"} \cup ImgIds

\* The handle the controller creates as its n-th box for image i, and the
\* size display it creates for image i.
Handle(i, n, cur) == [tag |-> "DIV", role |-> "handle", of |-> i, n |-> n, cursor |-> cur]

Display(i) == [tag |-> "DIV", role |-> "display", of |-> i]

\* A registered event listener: addEventListener(type, handler, capture) on
\* target.  The DOM keeps at most one listener per (type, handler, capture).
Listener(target, type, handler, capture) ==
    [target |-> target, type |-> type, handler |-> handler, capture |-> capture]

\* ----------------------------------------------------------------- helpers

\* Math.round of n2 half pixels: the nearest integer, halves towards
\* +Infinity; NaN stays NaN.
Round(v) == IF IsNum(v) THEN Num((v.num + 1) \div 2) ELSE NaN

\* a + b and a - b of JavaScript numbers; an undefined operand converts to
\* NaN, and NaN propagates.
Plus(a, b) == IF IsNum(a) /\ IsNum(b) THEN Num(a.num + b.num) ELSE NaN

Minus(a, b) == IF IsNum(a) /\ IsNum(b) THEN Num(a.num - b.num) ELSE NaN

\* Whole pixels as half pixels.
Px(w) == IF IsNum(w) THEN Num(2 * w.num) ELSE w

\* Math.round(a / b) for integers a >= 0, b > 0.
RoundDiv(a, b) == (2 * a + b) \div (2 * b)

\* A JavaScript number is an IEEE 754 double: 53 significant bits.
Precision == 53

\* The binary digits of a natural number, the highest first.
RECURSIVE Binary(_)
Binary(n) == IF n = 0 THEN <<>> ELSE Append(Binary(n \div 2), n % 2)

\* The natural number these binary digits write.
RECURSIVE BitsValue(_)
BitsValue(bits) ==
    IF bits = <<>> THEN 0
    ELSE 2 * BitsValue(SubSeq(bits, 1, Len(bits) - 1)) + bits[Len(bits)]

\* The digits of the number plus one.
RECURSIVE Increment(_)
Increment(bits) ==
    IF bits = <<>> THEN <<1>>
    ELSE IF bits[Len(bits)] = 0 THEN SubSeq(bits, 1, Len(bits) - 1) \o <<1>>
    ELSE Increment(SubSeq(bits, 1, Len(bits) - 1)) \o <<0>>

\* A positive double is its significant digits, the first of them 1, with
\* `point` of them before the binary point; zero has no digit.  The exact
\* value with these digits, and a rest beyond them when sticky, rounds to
\* the nearest double, a tie to the even one.
RoundToPrecision(bits, point, sticky) ==
    IF Len(bits) <= Precision THEN [bits |-> bits, point |-> point]
    ELSE LET mant == SubSeq(bits, 1, Precision)
             rest == sticky \/ \E k \in (Precision + 2)..Len(bits) : bits[k] = 1
             up == bits[Precision + 1] = 1 /\ (rest \/ mant[Precision] = 1)
             inc == Increment(mant)
         IN  IF ~up THEN [bits |-> mant, point |-> point]
             ELSE IF Len(inc) > Precision
                  THEN [bits |-> SubSeq(inc, 1, Precision), point |-> point + 1]
             ELSE [bits |-> inc, point |-> point]

\* Long division: the digits of r / d after those in bits, up to one digit
\* past the precision, and the remainder then left.
RECURSIVE QuotientBits(_, _, _, _)
QuotientBits(r, d, bits, point) ==
    IF Len(bits) > Precision THEN [bits |-> bits, point |-> point, rem |-> r]
    ELSE LET b == IF 2 * r >= d THEN 1 ELSE 0
         IN  IF bits = <<>> /\ b = 0
             THEN QuotientBits(2 * r, d, <<>>, point - 1)
             ELSE QuotientBits(2 * r - b * d, d, Append(bits, b), point)

\* a / b in doubles, for integers a >= 0 and b > 0.
Divide(a, b) ==
    IF a = 0 THEN [bits |-> <<>>, point |-> 0]
    ELSE LET q == QuotientBits(a % b, b, Binary(a \div b), Len(Binary(a \div b)))
         IN  RoundToPrecision(q.bits, q.point, q.rem # 0)

\* The digits of bits times n, from the k-th digit down, with the carry.
RECURSIVE ProductBits(_, _, _, _, _)
ProductBits(bits, n, k, carry, acc) ==
    IF k = 0 THEN Binary(carry) \o acc
    ELSE ProductBits(bits, n, k - 1, (bits[k] * n + carry) \div 2,
                     <<(bits[k] * n + carry) % 2>> \o acc)

\* x * n in doubles, for a double x >= 0 and an integer n >= 0.
Times(x, n) ==
    IF x.bits = <<>> \/ n = 0 THEN [bits |-> <<>>, point |-> 0]
    ELSE LET p == ProductBits(x.bits, n, Len(x.bits), 0, <<>>)
         IN  RoundToPrecision(p, x.point + Len(p) - Len(x.bits), FALSE)

\* Math.round(x) for a double 0 <= x < 2^31: the nearest integer, a half
\* going up.
MathRound(x) ==
    IF x.bits = <<>> \/ x.point < 0 THEN 0
    ELSE BitsValue(SubSeq(x.bits, 1, x.point))
            + (IF x.point + 1 <= Len(x.bits) THEN x.bits[x.point + 1] ELSE 0)

\* The sequence q without its first occurrence of e.
RECURSIVE RemoveFirst(_, _)
RemoveFirst(q, e) ==
    IF q = <<>> THEN <<>>
    ELSE IF Head(q) = e THEN Tail(q)
    ELSE <<Head(q)>> \o RemoveFirst(Tail(q), e)

InSeq(q, e) == \E k \in 1..Len(q) : q[k] = e

\* The number of elements of q with this role ("handle", "display").
Count(q, role) == Cardinality({ k \in 1..Len(q) : q[k].role = role })

\* ---------------------------------------------------- ImageDrop: the data

\* A string as the sequence of its characters, for the type test.
Upper == <<"A", "B", "C", "D", "E", "F", "G", "H", "I", "J", "K", "L", "M", "N", "O", "P", "Q", "R", "S", "T", "U", "V", "W", "X", "Y", "Z">>

Lower == <<"a", "b", "c", "d", "e", "f", "g", "h", "i", "j", "k", "l", "m", "n", "o", "p", "q", "r", "s", "t", "u", "v", "w", "x", "y", "z">>

\* The /i flag: a character compares as its lower-case form.
ToLower(c) ==
    IF \E k \in 1..Len(Upper) : Upper[k] = c
    THEN Lower[CHOOSE k \in 1..Len(Upper) : Upper[k] = c]
    ELSE c

\* p matches at the start of str, ignoring case.
StartsWith(str, p) ==
    /\ Len(p) <= Len(str)
    /\ \A k \in 1..Len(p) : ToLower(str[k]) = ToLower(p[k])

\* ^image\/
ImagePrefix == <<"i", "m", "a", "g", "e", "/">>

\* (gif|jpe?g|a?png|svg|webp|bmp|vnd\.microsoft\.icon), each alternative
\* with its optional character present and absent.
Subtypes ==
    { <<"g", "i", "f">>,
      <<"j", "p", "g">>,
      <<"j", "p", "e", "g">>,
      <<"p", "n", "g">>,
      <<"a", "p", "n", "g">>,
      <<"s", "v", "g">>,
      <<"w", "e", "b", "p">>,
      <<"b", "m", "p">>,
      <<"v", "n", "d", ".", "m", "i", "c", "r", "o", "s", "o", "f", "t", ".", "i", "c", "o", "n">> }

\* A mutant of TypeMatches: the pattern with png for a?png, which no
\* longer finds image/apng.
TypeMatchesPngOnly(type) ==
    \E sub \in Subtypes \ {<<"a", "p", "n", "g">>} : StartsWith(type, ImagePrefix \o sub)

\* file.type.match(/^image\/(gif|jpe?g|a?png|svg|webp|bmp|vnd\.microsoft\.icon)/i):
\* the pattern is anchored at the start only.
TypeMatches(type) == \E sub \in Subtypes : StartsWith(type, ImagePrefix \o sub)

\* The MIME types of the supported image formats.
SupportedTypes ==
    { <<"i", "m", "a", "g", "e", "/", "g", "i", "f">>,
      <<"i", "m", "a", "g", "e", "/", "j", "p", "e", "g">>,
      <<"i", "m", "a", "g", "e", "/", "p", "n", "g">>,
      <<"i", "m", "a", "g", "e", "/", "a", "p", "n", "g">>,
      <<"i", "m", "a", "g", "e", "/", "s", "v", "g", "+", "x", "m", "l">>,
      <<"i", "m", "a", "g", "e", "/", "w", "e", "b", "p">>,
      <<"i", "m", "a", "g", "e", "/", "b", "m", "p">>,
      <<"i", "m", "a", "g", "e", "/", "v", "n", "d", ".", "m", "i", "c", "r", "o", "s", "o", "f", "t", ".", "i", "c", "o", "n">> }

\* Other types a browser reports: a jpeg under its short name and a png in
\* upper case (both images), a document, a Photoshop image, a gzipped SVG.
OtherTypes ==
    { <<"i", "m", "a", "g", "e", "/", "j", "p", "g">>,
      <<"I", "M", "A", "G", "E", "/", "P", "N", "G">>,
      <<"a", "p", "p", "l", "i", "c", "a", "t", "i", "o", "n", "/", "p", "d", "f">>,
      <<"i", "m", "a", "g", "e", "/", "v", "n", "d", ".", "a", "d", "o", "b", "e", ".", "p", "h", "o", "t", "o", "s", "h", "o", "p">>,
      <<"i", "m", "a", "g", "e", "/", "s", "v", "g", "+", "x", "m", "l", "-", "c", "o", "m", "p", "r", "e", "s", "s", "e", "d">> }

ImageGif == <<"i", "m", "a", "g", "e", "/", "g", "i", "f">>

ImageWebp == <<"i", "m", "a", "g", "e", "/", "w", "e", "b", "p">>

ApplicationPdf == <<"a", "p", "p", "l", "i", "c", "a", "t", "i", "o", "n", "/", "p", "d", "f">>

TextPlain == <<"t", "e", "x", "t", "/", "p", "l", "a", "i", "n">>

ImagePng == <<"i", "m", "a", "g", "e", "/", "p", "n", "g">>

\* The entries a drop or paste payload is made of: a file of each type, and
\* two clipboard items that are no files (getAsFile() returns null).  A
\* File of evt.dataTransfer.files is a Blob itself; an item of
\* evt.clipboardData.items gives its Blob through getAsFile().
FileEntry(type) == [type |-> type, isFile |-> TRUE]

Pool ==
    { FileEntry(type) : type \in SupportedTypes \cup OtherTypes }
        \cup { [type |-> TextPlain, isFile |-> FALSE],
               [type |-> ImagePng, isFile |-> FALSE] }

\* reader.readAsDataURL(blob): "data:<type>;base64,<the blob's bytes>".
\* Each entry of the pool is a blob of its own.
DataUrl(file) == [scheme |-> "data", mime |-> file.type, base64 |-> file]

\* quill.getSelection(): null, or a range with an index.
Null == [null |-> TRUE]

Range(index) == [index |-> index]

\* ------------------------------------------------- ImageResize: the state

VARIABLES
    displaySize,   \* options.displaySize
    img,           \* this.img: the selected <img>, or undefined
    boxes,         \* this.boxes: the resize handles, in creation order
    display,       \* this.display: the size display element, or undefined
    dragBox,       \* this.dragBox
    dragStartX,    \* this.dragStartX (half pixels)
    preDragWidth,  \* this.preDragWidth (whole pixels)
    body,          \* the overlay children of document.body, in order
    listeners,     \* the registered event listeners
    cursor,        \* style.cursor of document.body, the editor root, each image
    userSelect,    \* style.userSelect of the editor root and of <html>
    width,         \* the width of each image (whole pixels)
    style,         \* style.left and style.top of each overlay element
    innerHTML,     \* the size display's text: <<width, height>>
    scroll,        \* window.pageXOffset and window.pageYOffset
    thrown,        \* the exception that escaped the last handler, or None
    moves,         \* mousemove events delivered so far
    lastEvent,     \* history: the last event, and this.img as it found it
    dragging,      \* history: a handle mousedown with no mouseup or
                   \* teardown since
    overlays,      \* history: the elements the last handler created and
                   \* those it removed from the document
    selection,     \* quill.getSelection()
    length,        \* quill.getLength()
    embeds,        \* the quill.insertEmbed calls made, in order
    reads,         \* the FileReaders at work, each with its callback
    timers,        \* the data URLs waiting for their setTimeout(.., 0)
    atHand,        \* the files and clipboard items the user has at hand
    used,          \* history: the entries dropped or pasted so far, each
                   \* with its event
    done,          \* history: how each read ended, and the editor then
    lastDrop       \* history: the last drop or paste event

resizeVars == <<displaySize, img, boxes, display, dragBox, dragStartX,
                preDragWidth, body, listeners, cursor, userSelect, width,
                style, innerHTML, scroll, thrown, moves, lastEvent, dragging,
                overlays>>

\* The controller's and the document's state as one record, for the
\* handlers to transform.
RC == [img |-> img, boxes |-> boxes, display |-> display, dragBox |-> dragBox,
       dragStartX |-> dragStartX, preDragWidth |-> preDragWidth, body |-> body,
       listeners |-> listeners, cursor |-> cursor, userSelect |-> userSelect,
       width |-> width, style |-> style, innerHTML |-> innerHTML, thrown |-> None,
       created |-> 0, removed |-> 0]

\* The handler's outcome becomes the next state.
Becomes(outcome) ==
    \E s \in {outcome} :
    /\ img' = s.img
    /\ boxes' = s.boxes
    /\ display' = s.display
    /\ dragBox' = s.dragBox
    /\ dragStartX' = s.dragStartX
    /\ preDragWidth' = s.preDragWidth
    /\ body' = s.body
    /\ listeners' = s.listeners
    /\ cursor' = s.cursor
    /\ userSelect' = s.userSelect
    /\ width' = s.width
    /\ style' = s.style
    /\ innerHTML' = s.innerHTML
    /\ thrown' = s.thrown
    /\ overlays' = [created |-> s.created, removed |-> s.removed]
    /\ UNCHANGED <<displaySize, scroll, selection, length, embeds, reads,
                   timers, atHand, used, done, lastDrop>>

\* ------------------------------------------------------ the DOM operations

Throw(s, e) == [s EXCEPT !.thrown = e]

\* target.addEventListener(type, handler, capture)
addEventListener(s, target, type, handler, capture) ==
    [s EXCEPT !.listeners = @ \cup {Listener(target, type, handler, capture)}]

\* target.removeEventListener(type, handler): the capture flag defaults to
\* false, and only the listener registered with that same flag is removed.
removeEventListener(s, target, type, handler) ==
    [s EXCEPT !.listeners = @ \ {Listener(target, type, handler, FALSE)}]

\* document.body.appendChild(el), of an element just made by
\* document.createElement('div').
appendChild(s, el) == [s EXCEPT !.body = Append(@, el), !.created = @ + 1]

\* document.body.removeChild(el): a TypeError when el is no Node, a
\* NotFoundError when el is no child of the body.  The controller drops its
\* references to an element it removes, so the detached element, with its
\* style, its text and its own listeners, is garbage and leaves the state.
removeChild(s, el) ==
    IF s.thrown # None THEN s
    ELSE IF el = Undefined THEN Throw(s, "TypeError")
    ELSE IF ~InSeq(s.body, el) THEN Throw(s, "NotFoundError")
    ELSE [s EXCEPT !.body = RemoveFirst(@, el),
                   !.removed = @ + 1,
                   !.style[el] = Undefined,
                   !.innerHTML = IF el.role = "display" THEN "" ELSE @,
                   !.listeners = { l \in @ : l.target # el }]

\* img.width = v: the attribute reflects an unsigned long, so NaN, a
\* negative number and a number above 2^31 - 1 all set it to 0.
SetWidth(s, i, v) ==
    [s EXCEPT !.width[i] = IF IsNum(v) /\ v.num >= 0 /\ v.num <= 2147483647
                           THEN v.num ELSE 0]

\* img.getBoundingClientRect(): the image is laid out at its width, with
\* the height its aspect ratio gives (hNum / hDen pixels).
getBoundingClientRect(s, i) ==
    [left |-> ImgLeft(i), top |-> ImgTop(i), width |-> s.width[i],
     hNum |-> s.width[i] * naturalHeight(i), hDen |-> naturalWidth(i)]

\* The size display's own box: its rendered text is about this large.
DispRect == [width |-> 70, height |-> 20]

\* --------------------------------------------- ImageResize: the methods

\* Half the side of a handle: its centre sits on the image's corner.
HandleHalf == 6

\* The size display's distance from the image's bottom-right corner.
DisplayInset == 8

\* The display goes inside an image wider than this and taller than that.
MinInsideWidth == 120

MinInsideHeight == 30

\* this.boxes[idx], with idx counted from 0 as the code does.
BoxAt(s, idx) == IF idx + 1 <= Len(s.boxes) THEN s.boxes[idx + 1] ELSE Undefined

setUserSelect(s, value) ==
    IF s.thrown # None THEN s
    ELSE [s EXCEPT !.userSelect = [root |-> value, html |-> value]]

\* [document.body, this.img, this.quill.root].forEach(el => el.style.cursor
\* = value): with no image, the second element raises a TypeError after the
\* body's cursor is set and before the root's is.
setCursor(s, value) ==
    IF s.thrown # None THEN s
    ELSE IF s.img = Undefined
         THEN Throw([s EXCEPT !.cursor["body"] = value], "TypeError")
    ELSE [s EXCEPT !.cursor = [p \in CursorPlaces |->
                                  IF p \in {"body", s.img.id, "root"} THEN value ELSE @[p]]]

addBox(s, cur) ==
    IF s.thrown # None THEN s
    ELSE LET box == Handle(s.img.id, Len(s.boxes) + 1, cur)
             s1 == addEventListener(s, box, "mousedown", "handleMousedown", FALSE)
             s2 == appendChild(s1, box)
         IN  [s2 EXCEPT !.boxes = Append(@, box)]

showResizers(s) ==
    IF s.thrown # None THEN s
    ELSE LET s1 == setUserSelect(s, "none")
             s2 == addBox(s1, "nwse-resize")
             s3 == addBox(s2, "nesw-resize")
             s4 == addBox(s3, "nwse-resize")
             s5 == addBox(s4, "nesw-resize")
             s6 == addEventListener(s5, Document, "keyup", "checkImage", TRUE)
         IN  addEventListener(s6, Root, "input", "checkImage", TRUE)

\* this.boxes.forEach(box => document.body.removeChild(box)), from the k-th.
RECURSIVE removeBoxes(_, _)
removeBoxes(s, k) ==
    IF s.thrown # None \/ k > Len(s.boxes) THEN s
    ELSE removeBoxes(removeChild(s, s.boxes[k]), k + 1)

hideResizers(s) ==
    IF s.thrown # None THEN s
    ELSE LET s1 == removeEventListener(s, Document, "keyup", "checkImage")
             s2 == removeEventListener(s1, Root, "input", "checkImage")
             s3 == setUserSelect(s2, "")
             s4 == setCursor(s3, "")
             s5 == removeBoxes(s4, 1)
         IN  IF s5.thrown # None THEN s5
             ELSE [s5 EXCEPT !.dragBox = Undefined, !.dragStartX = Undefined,
                             !.preDragWidth = Undefined, !.boxes = <<>>]

\* The four corners, top left first and clockwise; each handle of index idx
\* gets Math.round of its corner plus the page's scroll offset.
Corner(rect, idx) ==
    [left |-> IF idx \in {0, 3} THEN rect.left - HandleHalf
              ELSE rect.left + rect.width - HandleHalf,
     top  |-> IF idx \in {0, 1} THEN rect.top - HandleHalf
              ELSE rect.top + RoundDiv(rect.hNum, rect.hDen) - HandleHalf]

RECURSIVE positionFrom(_, _, _)
positionFrom(s, rect, idx) ==
    IF s.thrown # None \/ idx > 3 THEN s
    ELSE IF BoxAt(s, idx) = Undefined THEN Throw(s, "TypeError")
    ELSE positionFrom(
            [s EXCEPT !.style[BoxAt(s, idx)] =
                [left |-> Corner(rect, idx).left + scroll.x,
                 top  |-> Corner(rect, idx).top + scroll.y]],
            rect, idx + 1)

positionBoxes(s, rect) == positionFrom(s, rect, 0)

\* The widest an image gets: every mousemove of a drag adds at most the
\* pointer's range, rounded up to whole pixels.
MaxWidth == 200 + 11 * MaxPointer * MaxDragMoves

\* Math.round(width / naturalWidth * naturalHeight) for image i at each
\* width from lo to hi, in that order: the quotient is rounded to a double
\* before it is multiplied.
RECURSIVE RoundedHeights(_, _, _)
RoundedHeights(i, lo, hi) ==
    IF lo > hi THEN <<>>
    ELSE IF lo = hi
         THEN <<MathRound(Times(Divide(lo, naturalWidth(i)), naturalHeight(i)))>>
    ELSE RoundedHeights(i, lo, (lo + hi) \div 2)
            \o RoundedHeights(i, (lo + hi) \div 2 + 1, hi)

\* The same for both images at every width from 0, worked out once.
RoundedHeight ==
    [A |-> RoundedHeights("A", 0, MaxWidth), B |-> RoundedHeights("B", 0, MaxWidth)]

getCurrentSize(s) ==
    <<s.width[s.img.id], RoundedHeight[s.img.id][s.width[s.img.id] + 1]>>

showSizeDisplay(s) ==
    IF s.thrown # None \/ ~displaySize THEN s
    ELSE appendChild([s EXCEPT !.display = Display(s.img.id)], Display(s.img.id))

hideSizeDisplay(s) ==
    IF s.thrown # None THEN s
    ELSE LET s1 == removeChild(s, s.display)
         IN  IF s1.thrown # None THEN s1 ELSE [s1 EXCEPT !.display = Undefined]

positionSizeDisplay(s, rect) ==
    IF s.thrown # None \/ s.display = Undefined \/ s.img = Undefined THEN s
    ELSE LET size == getCurrentSize(s)
             h == RoundDiv(rect.hNum, rect.hDen)
             s1 == [s EXCEPT !.innerHTML =
                        ToString(size[1]) \o " &times; " \o ToString(size[2])]
         IN  IF size[1] > MinInsideWidth /\ size[2] > MinInsideHeight
             THEN [s1 EXCEPT !.style[s.display] =
                     [left |-> rect.left + rect.width + scroll.x
                                 - DispRect.width - DisplayInset,
                      top  |-> rect.top + h + scroll.y
                                 - DispRect.height - DisplayInset]]
             ELSE [s1 EXCEPT !.style[s.display] =
                     [left |-> rect.left + rect.width + scroll.x + DisplayInset,
                      top  |-> rect.top + h + scroll.y + DisplayInset]]

show(s, i) ==
    IF s.thrown # None THEN s
    ELSE LET s1 == [s EXCEPT !.img = i]
             s2 == showResizers(s1)
             s3 == showSizeDisplay(s2)
             rect == getBoundingClientRect(s3, i.id)
             s4 == positionBoxes(s3, rect)
         IN  positionSizeDisplay(s4, rect)

hide(s) ==
    IF s.thrown # None THEN s
    ELSE LET s1 == hideResizers(s)
             s2 == hideSizeDisplay(s1)
         IN  IF s2.thrown # None THEN s2 ELSE [s2 EXCEPT !.img = Undefined]

\* -------------------------------------------- ImageResize: the handlers

\* A mutant of handleClick: a click on the selected image selects it anew.
handleClickAnew(s, target) ==
    IF target.tag = "IMG"
    THEN show(IF s.img # Undefined THEN hide(s) ELSE s, target)
    ELSE IF s.img # Undefined THEN hide(s) ELSE s

handleClick(s, target) ==
    IF target.tag = "IMG"
    THEN IF s.img = target THEN s
         ELSE show(IF s.img # Undefined THEN hide(s) ELSE s, target)
    ELSE IF s.img # Undefined THEN hide(s) ELSE s

checkImage(s) == IF s.img # Undefined THEN hide(s) ELSE s

\* A mutant of WidthOrNatural: this.img.width alone.
WidthAsIs(s) == s.width[s.img.id]

\* this.img.width || this.img.naturalWidth
WidthOrNatural(s) ==
    IF s.width[s.img.id] # 0 THEN s.width[s.img.id] ELSE naturalWidth(s.img.id)

handleMousedown(s, box, clientX) ==
    LET s1 == [s EXCEPT !.dragBox = box, !.dragStartX = Num(clientX)]
    IN  IF s.img = Undefined THEN Throw(s1, "TypeError")
        ELSE LET s2 == [s1 EXCEPT !.preDragWidth = Num(WidthOrNatural(s1))]
                 s3 == setCursor(s2, box.cursor)
                 s4 == addEventListener(s3, Document, "mousemove", "handleDrag", FALSE)
             IN  addEventListener(s4, Document, "mouseup", "handleMouseup", FALSE)

\* A mutant of handleMouseup: the cursor is reset and the two listeners
\* stay.
handleMouseupKeepsListening(s) == setCursor(s, "")

handleMouseup(s) ==
    LET s1 == setCursor(s, "")
    IN  IF s1.thrown # None THEN s1
        ELSE removeEventListener(
                removeEventListener(s1, Document, "mousemove", "handleDrag"),
                Document, "mouseup", "handleMouseup")

\* The width handleDrag assigns for a handle on the left side.
LeftWidth(s, clientX) ==
    Round(Minus(Minus(Px(s.preDragWidth), Num(clientX)), s.dragStartX))

\* The width handleDrag assigns for a handle on the right side.
RightWidth(s, clientX) ==
    Round(Minus(Plus(Px(s.preDragWidth), Num(clientX)), s.dragStartX))

\* this.dragBox == this.boxes[0] || this.dragBox == this.boxes[3]
IsLeftHandle(s) == s.dragBox = BoxAt(s, 0) \/ s.dragBox = BoxAt(s, 3)

handleDrag(s, clientX) ==
    IF s.img = Undefined THEN s
    ELSE LET s1 == SetWidth(s, s.img.id,
                            IF IsLeftHandle(s) THEN LeftWidth(s, clientX)
                            ELSE RightWidth(s, clientX))
             rect == getBoundingClientRect(s1, s.img.id)
         IN  positionSizeDisplay(positionBoxes(s1, rect), rect)

\* ----------------------------------------------- ImageResize: the events

Registered(target, type, handler, capture) ==
    Listener(target, type, handler, capture) \in listeners

Elements ==
    { Handle(i, n, c) : i \in ImgIds, n \in 1..4, c \in {"nwse-resize", "nesw-resize"} }
        \cup { Display(i) : i \in ImgIds }

\* The event being dispatched, for the history, with this.img and the
\* drag in progress as the event found them.
Event(type, target, clientX) ==
    [type |-> type, target |-> target, clientX |-> clientX, imgBefore |-> img,
     draggingBefore |-> dragging]

\* new ImageResize(quill, options), for either value of displaySize.  The
\* editor is empty and nothing is dropped or pasted.
ResizeInit ==
    /\ displaySize \in BOOLEAN
    /\ img = Undefined
    /\ boxes = <<>>
    /\ display = Undefined
    /\ dragBox = Undefined
    /\ dragStartX = Undefined
    /\ preDragWidth = Undefined
    /\ body = <<>>
    /\ listeners = {Listener(Root, "click", "handleClick", FALSE)}
    /\ cursor = [p \in CursorPlaces |-> ""]
    /\ userSelect = [root |-> "", html |-> ""]
    /\ width = [i \in ImgIds |-> naturalWidth(i)]
    /\ style = [e \in Elements |-> Undefined]
    /\ innerHTML = ""
    /\ scroll = [x |-> 10, y |-> 300]
    /\ thrown = None
    /\ moves = 0
    /\ dragging = FALSE
    /\ overlays = [created |-> 0, removed |-> 0]
    /\ lastEvent = Event("construct", Root, Undefined)
    /\ selection = Null
    /\ length = 1
    /\ embeds = <<>>
    /\ reads = {}
    /\ timers = <<>>
    /\ atHand = {}
    /\ used = {}
    /\ done = {}
    /\ lastDrop = [type |-> "none", defaultPrevented |-> FALSE]

\* A click inside the editor, on an image or on something else.
Click(target) ==
    /\ Registered(Root, "click", "handleClick", FALSE)
    /\ Becomes(handleClick(RC, target))
    /\ lastEvent' = Event("click", target, Undefined)
    /\ dragging' = IF img = target \/ (img = Undefined /\ target.tag # "IMG")
                   THEN dragging ELSE FALSE
    /\ UNCHANGED moves

\* A keyup anywhere in the document.
Keyup ==
    /\ Registered(Document, "keyup", "checkImage", TRUE)
    /\ Becomes(checkImage(RC))
    /\ lastEvent' = Event("keyup", Document, Undefined)
    /\ dragging' = IF img = Undefined THEN dragging ELSE FALSE
    /\ UNCHANGED moves

\* An input event inside the editor root.
Input ==
    /\ Registered(Root, "input", "checkImage", TRUE)
    /\ Becomes(checkImage(RC))
    /\ lastEvent' = Event("input", Root, Undefined)
    /\ dragging' = IF img = Undefined THEN dragging ELSE FALSE
    /\ UNCHANGED moves

\* A mousedown on a handle that is in the document.
Mousedown(box, clientX) ==
    /\ InSeq(body, box)
    /\ Registered(box, "mousedown", "handleMousedown", FALSE)
    /\ Becomes(handleMousedown(RC, box, clientX))
    /\ lastEvent' = Event("mousedown", box, Num(clientX))
    /\ dragging' = TRUE
    /\ UNCHANGED moves

\* A mousemove anywhere in the document.
Mousemove(clientX) ==
    /\ Registered(Document, "mousemove", "handleDrag", FALSE)
    /\ moves < MaxDragMoves
    /\ Becomes(handleDrag(RC, clientX))
    /\ lastEvent' = Event("mousemove", Document, Num(clientX))
    /\ moves' = moves + 1
    /\ UNCHANGED dragging

\* A mouseup anywhere in the document.
Mouseup ==
    /\ Registered(Document, "mouseup", "handleMouseup", FALSE)
    /\ Becomes(handleMouseup(RC))
    /\ lastEvent' = Event("mouseup", Document, Undefined)
    /\ dragging' = FALSE
    /\ UNCHANGED moves

ResizeNext ==
    \/ \E target \in ClickTargets : Click(target)
    \/ Keyup
    \/ Input
    \/ \E k \in 1..Len(body), clientX \in PointerXs : Mousedown(body[k], clientX)
    \/ \E clientX \in PointerXs : Mousemove(clientX)
    \/ Mouseup

ResizeSpec == ResizeInit /\ [][ResizeNext]_resizeVars

\* ------------------------------------------- ImageResize: the properties

IsHandle == "handle"

IsDisplay == "display"

\* The last event was a deselect trigger that found an image selected.
Deselected ==
    /\ lastEvent.imgBefore # Undefined
    /\ \/ lastEvent.type \in {"keyup", "input"}
       \/ lastEvent.type = "click" /\ lastEvent.target.tag # "IMG"

\* The last event was a click on an image other than the selected one.
Switched ==
    /\ lastEvent.type = "click"
    /\ lastEvent.target.tag = "IMG"
    /\ lastEvent.imgBefore \notin {Undefined, lastEvent.target}

\* The last event was a mousemove of a drag session on a selected image.
Dragged ==
    /\ lastEvent.type = "mousemove"
    /\ dragging
    /\ img # Undefined

\* C1: after a deselect trigger (a click on a non-image, a keyup, an input
\* event) that found an image selected, the controller is Idle: no handle
\* and no size display is left in the document, the drag-session fields are
\* cleared and no image is selected -- for either value of displaySize.
C1_DeselectEndsIdle ==
    Deselected =>
        /\ img = Undefined
        /\ boxes = <<>>
        /\ Count(body, IsHandle) = 0
        /\ Count(body, IsDisplay) = 0
        /\ display = Undefined
        /\ dragBox = Undefined
        /\ dragStartX = Undefined
        /\ preDragWidth = Undefined

\* C2: after a click on image B that found another image A selected, B is
\* the selected image, the document holds exactly four handles, all created
\* for B, and no overlay element of A.
C2_SwitchSelectsSecond ==
    Switched =>
        /\ img = lastEvent.target
        /\ Count(body, IsHandle) = 4
        /\ \A k \in 1..Len(body) : body[k].of = lastEvent.target.id
        /\ boxes = [k \in 1..4 |-> body[k]]

\* The width a mousemove at clientX x (half pixels) has to give, for a drag
\* that began at x0 with width w0: round(w0 - (x - x0)) for a handle on the
\* left, round(w0 + (x - x0)) for one on the right.
ExpectedWidth(n, w0, x0, x) ==
    IF n \in {1, 4} THEN (2 * w0 - (x - x0) + 1) \div 2
    ELSE (2 * w0 + (x - x0) + 1) \div 2

\* C3: every mousemove of a drag session sets the image's width to
\* round(w0 - (x - x0)) for a left handle (top left, bottom left) and to
\* round(w0 + (x - x0)) for a right handle, whatever the drag's start x0.
C3_DragWidth ==
    Dragged =>
        width[img.id] = ExpectedWidth(dragBox.n, preDragWidth.num,
                                      dragStartX.num, lastEvent.clientX.num)

\* C5: in every reachable state the document holds four handles when an
\* image is selected and none otherwise, and a size display exactly when an
\* image is selected and displaySize is set.
C5_OverlaysMatchSelection ==
    /\ Count(body, IsHandle) = (IF img # Undefined THEN 4 ELSE 0)
    /\ Count(body, IsDisplay) = (IF img # Undefined /\ displaySize THEN 1 ELSE 0)
    /\ (display # Undefined) <=> (img # Undefined /\ displaySize)

\* C6: no listener outlives its owning state: the keyup and input
\* watchers are registered only while an image is selected, the mousemove
\* and mouseup listeners only during a drag session, so none of the four is
\* registered while the controller is Idle.
C6_NoDanglingListener ==
    /\ Registered(Document, "keyup", "checkImage", TRUE) => img # Undefined
    /\ Registered(Root, "input", "checkImage", TRUE) => img # Undefined
    /\ Registered(Document, "mousemove", "handleDrag", FALSE) => dragging /\ img # Undefined
    /\ Registered(Document, "mouseup", "handleMouseup", FALSE) => dragging /\ img # Undefined

\* The last event was a mouseup that ended a drag on a selected image: a
\* handle mousedown came before it, with no teardown in between.
DragEnded ==
    /\ lastEvent.type = "mouseup"
    /\ lastEvent.draggingBefore
    /\ lastEvent.imgBefore # Undefined

\* C11: a mouseup that ends a drag on a selected image leaves that image
\* selected, with its four handles and (when displaySize is set) its size
\* display in the document, and removes the mousemove listener; and only a
\* handle mousedown registers it again, so that no mousemove reaches
\* handleDrag, and none changes a width, before the next mousedown.
C11_MouseupKeepsSelection ==
    /\ [](DragEnded =>
            /\ thrown = None
            /\ img = lastEvent.imgBefore
            /\ Len(boxes) = 4
            /\ \A k \in 1..4 : InSeq(body, boxes[k]) /\ boxes[k].of = img.id
            /\ Count(body, IsHandle) = 4
            /\ Count(body, IsDisplay) = (IF displaySize THEN 1 ELSE 0)
            /\ displaySize => display = Display(img.id) /\ InSeq(body, display)
            /\ ~Registered(Document, "mousemove", "handleDrag", FALSE))
    /\ [][(~Registered(Document, "mousemove", "handleDrag", FALSE)
            /\ Registered(Document, "mousemove", "handleDrag", FALSE)')
                => lastEvent'.type = "mousedown"]_resizeVars
    /\ [][(~Registered(Document, "mousemove", "handleDrag", FALSE)
            /\ lastEvent'.type # "mousedown") => width' = width]_resizeVars

\* A drag moved the image's width and a mouseup ended it: the image is
\* still selected, at its new width.
C11_Witness ==
    /\ DragEnded
    /\ img = Img("A")
    /\ width["A"] # naturalWidth("A")
    /\ Count(body, IsHandle) = 4
    /\ ~Registered(Document, "mousemove", "handleDrag", FALSE)

\* The height the size display has to show for image i at its width:
\* round(width * naturalHeight / naturalWidth).
ShownHeight(i) == RoundDiv(width[i] * naturalHeight(i), naturalWidth(i))

\* The display belongs inside image i: wide and tall enough, the
\* boundaries 120 and 30 themselves excluded.
Inside(i) == width[i] > MinInsideWidth /\ ShownHeight(i) > MinInsideHeight

\* The bottom-right corner of image i on the page.
CornerLeft(i) == ImgLeft(i) + width[i] + scroll.x

CornerTop(i) == ImgTop(i) + ShownHeight(i) + scroll.y

\* The size display has been positioned for the selected image.
Positioned ==
    /\ lastEvent.type \in {"click", "mousemove"}
    /\ thrown = None
    /\ img # Undefined
    /\ display # Undefined

\* C12: whenever the size display has been positioned, on selection and
\* after every mousemove of a drag, its text is the image's width and the
\* height round(width * naturalHeight / naturalWidth), and it lies inside
\* the bottom-right corner, 8px in, exactly when width > 120 and that
\* height > 30, and 8px outside the corner otherwise.
C12_SizeDisplayRule ==
    Positioned =>
        /\ innerHTML = ToString(width[img.id]) \o " &times; "
                            \o ToString(ShownHeight(img.id))
        /\ style[display] =
                IF Inside(img.id)
                THEN [left |-> CornerLeft(img.id) - DispRect.width - DisplayInset,
                      top  |-> CornerTop(img.id) - DispRect.height - DisplayInset]
                ELSE [left |-> CornerLeft(img.id) + DisplayInset,
                      top  |-> CornerTop(img.id) + DisplayInset]

\* C13: a click on the image that is already selected changes nothing:
\* this.img, this.boxes, this.display, the drag-session fields, the
\* listeners, the document's overlay elements with their places and text,
\* the cursor and user-select styles and the widths all stay, no element is
\* created or removed, and nothing is raised.
C13_SameImageClickNoOp ==
    [][(lastEvent'.type = "click" /\ img # Undefined /\ lastEvent'.target = img) =>
            /\ UNCHANGED <<img, boxes, display, dragBox, dragStartX, preDragWidth,
                           body, listeners, cursor, userSelect, width, style,
                           innerHTML>>
            /\ overlays' = [created |-> 0, removed |-> 0]
            /\ thrown' = None]_resizeVars

\* The selected image was clicked in the middle of a drag, and the drag
\* session is as it was.
C13_Witness ==
    /\ lastEvent.type = "click"
    /\ lastEvent.imgBefore = lastEvent.target
    /\ lastEvent.draggingBefore
    /\ img = lastEvent.target
    /\ dragBox # Undefined
    /\ Count(body, IsHandle) = 4
    /\ overlays = [created |-> 0, removed |-> 0]

\* C15: the drag-session fields (this.dragBox, this.dragStartX,
\* this.preDragWidth) are set exactly between a handle mousedown and the
\* mouseup or teardown that follows it: all three set during a drag, all
\* three unset in Idle, while Selected with no drag in progress -- after a
\* mouseup too -- and after a teardown in the middle of a drag.
C15_DragSessionLifetime ==
    /\ dragging =>
            dragBox # Undefined /\ dragStartX # Undefined /\ preDragWidth # Undefined
    /\ ~dragging =>
            dragBox = Undefined /\ dragStartX = Undefined /\ preDragWidth = Undefined

\* The last event was a mousemove of a drag session on a right-side
\* handle (top right, bottom right) with the pointer where the drag began.
DraggedRightToStart ==
    /\ Dragged
    /\ dragBox.n \in {2, 3}
    /\ lastEvent.clientX = dragStartX

\* C16: a handle mousedown records as this.preDragWidth the image's width
\* when that is not 0 and its natural width when it is; and a mousemove on
\* a right-side handle with the pointer at the drag's start sets the width
\* to the recorded one.
C16_StartWidthRecorded ==
    /\ [][(lastEvent'.type = "mousedown" /\ lastEvent' # lastEvent) =>
            /\ thrown' = None
            /\ preDragWidth' = Num(IF width[img.id] # 0 THEN width[img.id]
                                   ELSE naturalWidth(img.id))
            /\ width' = width]_resizeVars
    /\ [](DraggedRightToStart => width[img.id] = preDragWidth.num)

\* A mousedown on a right-side handle of an image whose width is 0 has
\* recorded the image's natural width.
C16_Witness ==
    /\ lastEvent.type = "mousedown"
    /\ img # Undefined
    /\ width[img.id] = 0
    /\ dragBox.n \in {2, 3}
    /\ preDragWidth = Num(naturalWidth(img.id))

\* C17: the cursor style set on document.body, the editor root and the
\* images is non-empty only during a drag session, where body, root and
\* the selected image carry the active handle's cursor; user-select is
\* 'none' on the editor root and on <html> exactly while an image is
\* selected, and empty otherwise.
C17_CursorAndUserSelect ==
    /\ \A p \in CursorPlaces : cursor[p] # "" => dragging
    /\ dragging =>
            /\ img # Undefined
            /\ \A p \in {"body", "root", img.id} : cursor[p] = dragBox.cursor
    /\ img # Undefined => userSelect = [root |-> "none", html |-> "none"]
    /\ img = Undefined => userSelect = [root |-> "", html |-> ""]

\* The last event was a mousemove of a drag session that brought the
\* pointer back to where the drag began, on whichever handle.
DraggedBackToStart ==
    /\ Dragged
    /\ lastEvent.clientX = dragStartX

\* C18: within a drag session the width depends on the pointer's X alone:
\* a mousemove back to the drag's start, after whatever mousemoves, gives
\* the image the width recorded at the mousedown -- for the handles of
\* both sides and for every drag start.
C18_DragBackRestoresWidth ==
    DraggedBackToStart => width[img.id] = preDragWidth.num

\* C19: the controller changes an image's width only by a mousemove of a
\* drag session -- after a handle mousedown, before the mouseup or
\* teardown that follows it -- and only the selected image's; a mousemove
\* with no drag in progress, after a deselect in the middle of a drag
\* included, changes no width.
C19_WidthChangesOnlyInDrag ==
    [][\A i \in ImgIds :
        width'[i] # width[i] =>
            /\ lastEvent'.type = "mousemove"
            /\ dragging
            /\ img = Img(i)]_resizeVars

\* C20: no handler of the controller raises an exception: after every
\* click, keyup, input, handle mousedown, mousemove and mouseup, for
\* either value of displaySize, the handler has run to its end.
C20_NoHandlerThrows == thrown = None

\* --------------------------------------------------- ImageDrop: the state

\* ImageDrop variables are declared with the editor they act on.
dropVars == <<selection, length, embeds, reads, timers, atHand, used, done, lastDrop>>

\* The editor and the pending work as one record, for the handlers.
ED == [selection |-> selection, length |-> length, embeds |-> embeds,
       reads |-> reads, timers |-> timers, evt |-> lastDrop]

Edited(outcome) ==
    \E s \in {outcome} :
    /\ selection' = s.selection
    /\ length' = s.length
    /\ embeds' = s.embeds
    /\ reads' = s.reads
    /\ timers' = s.timers

\* ------------------------------------------------- ImageDrop: the methods

\* quill.insertEmbed(index, kind, value, source): the call is logged; the
\* editor grows by the embed, and a cursor at or after the index moves
\* along with the text behind it.
insertEmbed(s, index, kind, value, source) ==
    [s EXCEPT !.embeds = Append(@, [index |-> index, kind |-> kind,
                                    value |-> value, source |-> source]),
              !.length = @ + 1,
              !.selection = IF @ # Null /\ index <= @.index
                            THEN Range(@.index + 1) ELSE @]

\* (this.quill.getSelection() || {}).index || this.quill.getLength(): an
\* index of 0 is falsy, as a missing one is.
InsertIndex(s) ==
    IF s.selection # Null /\ s.selection.index # 0 THEN s.selection.index
    ELSE s.length

insert(s, dataUrl) == insertEmbed(s, InsertIndex(s), "image", dataUrl, "user")

\* The body of readFiles' forEach for one entry: an entry whose type does
\* not match is skipped, and so is one that gives no Blob; for the others a
\* FileReader is started that will hand its result to the callback.
readFile(s, file, callback) ==
    IF ~TypeMatches(file.type) THEN s
    ELSE IF ~file.isFile THEN s
    ELSE [s EXCEPT !.reads = @ \cup {[file |-> file, callback |-> callback]}]

RECURSIVE readFiles(_, _, _)
readFiles(s, files, callback) ==
    IF files = <<>> THEN s
    ELSE readFiles(readFile(s, Head(files), callback), Tail(files), callback)

\* A drop or paste event as it is dispatched.
DropEvent(type) == [type |-> type, defaultPrevented |-> FALSE]

\* evt.preventDefault()
preventDefault(s) == [s EXCEPT !.evt.defaultPrevented = TRUE]

\* A mutant of handleDrop: the default is prevented only for a drop that
\* carries files.
handleDropOfFiles(s, files) ==
    IF Len(files) # 0 THEN readFiles(preventDefault(s), files, "insert") ELSE s

handleDrop(s, files) ==
    LET s1 == preventDefault(s)
    IN  IF Len(files) # 0 THEN readFiles(s1, files, "insert") ELSE s1

handlePaste(s, items) ==
    IF Len(items) # 0 THEN readFiles(s, items, "paste") ELSE s

\* A mutant of pasteCallback: the insertion is made at once, with no
\* timeout, when there is no selection.
pasteCallbackAtOnce(s, dataUrl) ==
    IF s.selection # Null THEN s
    ELSE insertEmbed(s, s.length, "image", dataUrl, "user")

\* The callback handlePaste gives readFiles: with a selection the image has
\* already been placed; without one the insertion waits for a timeout of 0.
pasteCallback(s, dataUrl) ==
    IF s.selection # Null THEN s
    ELSE [s EXCEPT !.timers = Append(@, dataUrl)]

\* reader.onload: callback(evt.target.result)
onload(s, read) ==
    LET s1 == [s EXCEPT !.reads = @ \ {read}]
    IN  IF read.callback = "insert" THEN insert(s1, DataUrl(read.file))
        ELSE pasteCallback(s1, DataUrl(read.file))

\* -------------------------------------------------- ImageDrop: the events

\* The payloads of at most n distinct entries of S, in every order.
RECURSIVE Payloads(_, _)
Payloads(S, n) ==
    IF n = 0 THEN {<<>>}
    ELSE {<<>>} \cup UNION { { <<f>> \o p : p \in Payloads(S \ {f}, n - 1) } : f \in S }

\* A few entries to drop or paste together: three images, a document and
\* a clipboard item that is no file.
Mixed ==
    { FileEntry(ImagePng), FileEntry(ImageGif), FileEntry(ImageWebp),
      FileEntry(ApplicationPdf),
      [type |-> ImagePng, isFile |-> FALSE] }

\* The entries still at hand: each is dropped or pasted once, and no more
\* than MaxFiles of them in one behaviour.
UsedEntries == { u.file : u \in used }

Available == atHand \ UsedEntries

Left == MaxFiles - Cardinality(used)

Entries(files, event) == { [file |-> files[k], event |-> event] : k \in 1..Len(files) }

\* new ImageDrop(quill): an empty editor (one newline) without the focus.
\* The user has at hand either one entry, of any kind, or the mixed few.
\* The resize controller stays as constructed.
DropInit ==
    /\ selection = Null
    /\ length = 1
    /\ embeds = <<>>
    /\ reads = {}
    /\ timers = <<>>
    /\ atHand \in {Mixed} \cup { {f} : f \in Pool }
    /\ used = {}
    /\ done = {}
    /\ lastDrop = [type |-> "none", defaultPrevented |-> FALSE]
    /\ displaySize = FALSE
    /\ img = Undefined
    /\ boxes = <<>>
    /\ display = Undefined
    /\ dragBox = Undefined
    /\ dragStartX = Undefined
    /\ preDragWidth = Undefined
    /\ body = <<>>
    /\ listeners = {Listener(Root, "drop", "handleDrop", FALSE),
                    Listener(Root, "paste", "handlePaste", FALSE)}
    /\ cursor = [p \in CursorPlaces |-> ""]
    /\ userSelect = [root |-> "", html |-> ""]
    /\ width = [i \in ImgIds |-> naturalWidth(i)]
    /\ style = [e \in Elements |-> Undefined]
    /\ innerHTML = ""
    /\ scroll = [x |-> 10, y |-> 300]
    /\ thrown = None
    /\ moves = 0
    /\ dragging = FALSE
    /\ overlays = [created |-> 0, removed |-> 0]
    /\ lastEvent = Event("construct", Root, Undefined)

\* A drop on the editor root, of files (evt.dataTransfer.files).
Drop(files) ==
    /\ Registered(Root, "drop", "handleDrop", FALSE)
    /\ \E out \in {handleDrop([ED EXCEPT !.evt = DropEvent("drop")], files)} :
            Edited(out) /\ lastDrop' = out.evt
    /\ used' = used \cup Entries(files, "drop")
    /\ UNCHANGED <<done, atHand, resizeVars>>

\* A paste into the editor root, of clipboard items.
Paste(items) ==
    /\ Registered(Root, "paste", "handlePaste", FALSE)
    /\ \E out \in {handlePaste([ED EXCEPT !.evt = DropEvent("paste")], items)} :
            Edited(out) /\ lastDrop' = out.evt
    /\ used' = used \cup Entries(items, "paste")
    /\ UNCHANGED <<done, atHand, resizeVars>>

\* How a read ended, and whether the editor had a selection then.
Ended(read, outcome) ==
    [file |-> read.file, callback |-> read.callback, outcome |-> outcome,
     selected |-> selection # Null]

\* A FileReader finishes: its onload handler runs the callback.
Load(read) ==
    /\ read \in reads
    /\ Edited(onload(ED, read))
    /\ done' = done \cup {Ended(read, "load")}
    /\ UNCHANGED <<used, lastDrop, atHand, resizeVars>>

\* A FileReader fails: no onerror handler is set, so nothing runs.
Error(read) ==
    /\ read \in reads
    /\ reads' = reads \ {read}
    /\ done' = done \cup {Ended(read, "error")}
    /\ UNCHANGED <<selection, length, embeds, timers, atHand, used, lastDrop, resizeVars>>

\* The oldest setTimeout(() => this.insert(dataUrl), 0) fires.
Timeout ==
    /\ timers # <<>>
    /\ Edited(insert([ED EXCEPT !.timers = Tail(@)], Head(timers)))
    /\ UNCHANGED <<used, done, lastDrop, atHand, resizeVars>>

\* The user puts the cursor somewhere, or the editor loses the focus.
Select(sel) ==
    /\ sel # selection
    /\ selection' = sel
    /\ UNCHANGED <<length, embeds, reads, timers, atHand, used, done, lastDrop,
                   resizeVars>>

DropNext ==
    \/ \E files \in Payloads({f \in Available : f.isFile}, Left) : Drop(files)
    \/ \E items \in Payloads(Available, Left) : Paste(items)
    \/ \E read \in reads : Load(read)
    \/ \E read \in reads : Error(read)
    \/ Timeout
    \/ \E sel \in {Null} \cup { Range(k) : k \in 0..(length - 1) } : Select(sel)

vars == <<resizeVars, dropVars>>

DropSpec == DropInit /\ [][DropNext]_vars

\* The event loop runs every timeout that is due.
DropFairSpec == DropSpec /\ WF_vars(Timeout)

\* --------------------------------------------- ImageDrop: the properties

\* The insertEmbed calls made with this value, and the timeouts waiting
\* to make one.
Calls(value) == Cardinality({ k \in 1..Len(embeds) : embeds[k].value = value })

Scheduled(value) == Cardinality({ k \in 1..Len(timers) : timers[k] = value })

\* The read of this entry has ended this way.
HasEnded(file, outcome) == \E d \in done : d.file = file /\ d.outcome = outcome

\* The index the editor's state asks for: the selection's, or the length
\* of the document when there is no selection.
CursorIndex == IF selection # Null THEN selection.index ELSE length

\* The image formats the module supports, under every name the pool has
\* for them.
Jpg == <<"i", "m", "a", "g", "e", "/", "j", "p", "g">>

UpperPng == <<"I", "M", "A", "G", "E", "/", "P", "N", "G">>

SupportedNames == SupportedTypes \cup {Jpg, UpperPng}

\* C4: every insertEmbed call is made at the index of the selection as it
\* is at the call, whenever there is a selection -- an index of 0 included
\* -- and at the document's length only when there is none.
C4_InsertAtSelection ==
    [][Len(embeds') > Len(embeds) => embeds'[Len(embeds')].index = CursorIndex]_vars

\* C7: a dropped file of a supported type gets a reader, and once its read
\* has succeeded exactly one insertEmbed call has been made with its data
\* URI, of kind 'image' and source 'user'; none before, none if it failed.
C7_SupportedDropInserted ==
    \A u \in used :
        (u.event = "drop" /\ u.file.type \in SupportedTypes) =>
            \/ /\ [file |-> u.file, callback |-> "insert"] \in reads
               /\ Calls(DataUrl(u.file)) = 0
            \/ /\ HasEnded(u.file, "error")
               /\ Calls(DataUrl(u.file)) = 0
            \/ /\ HasEnded(u.file, "load")
               /\ Calls(DataUrl(u.file)) = 1
               /\ \A k \in 1..Len(embeds) :
                    embeds[k].value = DataUrl(u.file) =>
                        embeds[k].kind = "image" /\ embeds[k].source = "user"

\* A file of each supported type, the icon among them, has been dropped,
\* read and inserted.
C7_Witness ==
    \E u \in used :
        /\ u.event = "drop"
        /\ u.file.type = <<"i", "m", "a", "g", "e", "/", "v", "n", "d", ".", "m", "i", "c", "r", "o", "s", "o", "f", "t", ".", "i", "c", "o", "n">>
        /\ HasEnded(u.file, "load")
        /\ Calls(DataUrl(u.file)) = 1

\* C8: an entry of a drop or paste whose type is none of the supported
\* image types, or that is no file, or whose read failed, gets no
\* insertEmbed call, now or later; and the supported files of the same
\* event still get their readers.
C8_UnsupportedSkipped ==
    \A u \in used :
        /\ (u.file.type \notin SupportedNames \/ ~u.file.isFile
                \/ HasEnded(u.file, "error")) =>
                /\ Calls(DataUrl(u.file)) = 0
                /\ Scheduled(DataUrl(u.file)) = 0
        /\ (u.file.type \in SupportedNames /\ u.file.isFile) =>
                \/ \E r \in reads : r.file = u.file
                \/ \E d \in done : d.file = u.file

\* C9: a pasted image whose read ends while the editor has a selection
\* gets no insertEmbed call; one whose read ends while it has none gets
\* exactly one, made by a timeout of 0 and not by the read's own callback:
\* the callback makes no call, it schedules one, and that one is made.
C9_PasteDeferred ==
    /\ [](\A d \in done :
            (d.callback = "paste" /\ d.outcome = "load") =>
                IF d.selected
                THEN Calls(DataUrl(d.file)) = 0 /\ Scheduled(DataUrl(d.file)) = 0
                ELSE Calls(DataUrl(d.file)) + Scheduled(DataUrl(d.file)) = 1)
    /\ [][\A r \in reads :
            (r.callback = "paste" /\ r \notin reads') => embeds' = embeds]_vars
    /\ (timers # <<>>) ~> (timers = <<>>)

\* Of two pasted images, the one read with a selection has no call and the
\* one read without has its one call, the timeout having fired.
C9_Witness ==
    /\ \E d \in done : /\ d.callback = "paste" /\ d.outcome = "load" /\ d.selected
                       /\ Calls(DataUrl(d.file)) = 0
    /\ \E d \in done : /\ d.callback = "paste" /\ d.outcome = "load" /\ ~d.selected
                       /\ Calls(DataUrl(d.file)) = 1
    /\ timers = <<>>

\* C10: N dropped image files whose reads succeed get N insertEmbed calls,
\* one each, in whatever order the reads end; and each call is made at the
\* selection (or the length) of the moment its read ends.
C10_DropsInsertedAtCursor ==
    /\ [](\A d \in done :
            (d.callback = "insert" /\ d.outcome = "load") =>
                Calls(DataUrl(d.file)) = 1)
    /\ [](Len(embeds) = Cardinality({ d \in done : d.callback = "insert" /\ d.outcome = "load" })
            + Cardinality({ d \in done : d.callback = "paste" /\ d.outcome = "load" /\ ~d.selected })
            - Len(timers))
    /\ [][\A r \in reads :
            (r.callback = "insert" /\ HasEnded(r.file, "load")') =>
                /\ Len(embeds') = Len(embeds) + 1
                /\ embeds'[Len(embeds')].value = DataUrl(r.file)
                /\ embeds'[Len(embeds')].index = CursorIndex]_vars

\* C14: every drop event the importer has handled has its default action
\* prevented, a drop that carries no file included, and no paste event
\* has.
C14_DropPreventsDefault ==
    /\ lastDrop.type = "drop" => lastDrop.defaultPrevented
    /\ lastDrop.type = "paste" => ~lastDrop.defaultPrevented

\* A drop with no file in its payload, after a paste: the drop's default
\* is prevented.
C14_Witness ==
    /\ lastDrop.type = "drop"
    /\ lastDrop.defaultPrevented
    /\ used # {}
    /\ \A u \in used : u.event = "paste"

=============================================================================
